---- MODULE Spec2Model ----
(***************************************************************************)
(* The two-stage stock screening pipeline of services/stock_service.py     *)
(* (get_filtered_stock_rows, fixed thresholds) and                         *)
(* services/stock_service_para.py (get_filtered_stock_rows_by_params).     *)
(*                                                                         *)
(* Numbers are fixed-point integers in units of 1/Unit, so that the        *)
(* division by 100 of the percent rule is exact for every decimal with at  *)
(* most two fractional digits.  Python strings are sequences of one-       *)
(* character strings, Python dicts are functions from keys to values.      *)
(***************************************************************************)
EXTENDS Integers, Sequences, FiniteSets, TLC

\* ------------------------------------------------------------------------
\* Values
\* ------------------------------------------------------------------------

\* Python's None, which is also what a JSON null decodes to.
None == [t |-> "none"]

IsNone(x) == "t" \in DOMAIN x /\ x.t = "none"

\* Floats: a number n/Unit, or float("nan"), which is what
\* pd.to_numeric(..., errors="coerce") gives for text that is no number.
Num(n) == [num |-> n]
NaN == [nan |-> TRUE]

\* The fixed-point unit: the integer that stands for 1.0.
Unit == 100 * 100

\* An empty dict, {}.
EmptyDict == <<>>

\* dict.get(key): the value, or None when the key is absent.
Get(d, k) == IF k \in DOMAIN d THEN d[k] ELSE None

\* Python truthiness of a dict: `if r`.
Truthy(d) == DOMAIN d # {}

\* `x or {}` on a JSON value that is a dict or null.
OrEmpty(x) == IF IsNone(x) \/ ~Truthy(x) THEN EmptyDict ELSE x

\* JSON scalars of the upstream: an integer, a float or a string (and None).
JInt(n) == [t |-> "int", v |-> n]
JFloat(u) == [t |-> "float", v |-> u]
JStr(s) == [t |-> "str", s |-> s]

Digits == {"0", "1", "2", "3", "4", "5", "6", "7", "8", "9"}

DigitVal(c) ==
    CASE c = "0" -> 0 [] c = "1" -> 1 [] c = "2" -> 2 [] c = "3" -> 3
      [] c = "4" -> 4 [] c = "5" -> 5 [] c = "6" -> 6 [] c = "7" -> 7
      [] c = "8" -> 8 [] c = "9" -> 9

DigitChar(n) ==
    CASE n = 0 -> "0" [] n = 1 -> "1" [] n = 2 -> "2" [] n = 3 -> "3"
      [] n = 4 -> "4" [] n = 5 -> "5" [] n = 6 -> "6" [] n = 7 -> "7"
      [] n = 8 -> "8" [] n = 9 -> "9"

Abs(x) == IF x < 0 THEN -x ELSE x

RECURSIVE Pow10(_)
Pow10(n) == IF n = 0 THEN 1 ELSE 10 * Pow10(n - 1)

\* The value of a sequence of decimal digits.
RECURSIVE DigitsValue(_)
DigitsValue(s) ==
    IF s = <<>> THEN 0
    ELSE 10 * DigitsValue(SubSeq(s, 1, Len(s) - 1)) + DigitVal(s[Len(s)])

\* The decimal digits of a natural number, without leading zeros.
RECURSIVE NatDigits(_)
NatDigits(n) ==
    IF n < 10 THEN <<DigitChar(n)>>
    ELSE Append(NatDigits(n \div 10), DigitChar(n % 10))

\* The digits of a fraction f/10^w, w digits wide, trailing zeros removed
\* down to one digit (Python prints 3.0, 19.99, 6.24).
RECURSIVE FixedDigits(_, _)
FixedDigits(f, w) ==
    IF w = 1 THEN <<DigitChar(f)>>
    ELSE Append(FixedDigits(f \div 10, w - 1), DigitChar(f % 10))

RECURSIVE FracDigits(_, _)
FracDigits(f, w) ==
    IF w > 1 /\ f % 10 = 0 THEN FracDigits(f \div 10, w - 1)
    ELSE FixedDigits(f, w)

\* str(value) of a JSON value, as astype(str) and str() produce it.
Str(x) ==
    CASE x.t = "none" -> <<"N", "o", "n", "e">>
      [] x.t = "str" -> x.s
      [] x.t = "int" ->
           (IF x.v < 0 THEN <<"-">> ELSE <<>>) \o NatDigits(Abs(x.v))
      [] x.t = "float" ->
           (IF x.v < 0 THEN <<"-">> ELSE <<>>)
             \o NatDigits(Abs(x.v) \div Unit)
             \o <<".">>
             \o FracDigits(Abs(x.v) % Unit, 4)

\* s.replace("%", ""): every percent sign removed.
RemovePercent(s) == SelectSeq(s, LAMBDA c : c # "%")

\* pd.to_numeric(s, errors="coerce") on text: an optional sign, digits with
\* at most one decimal point and at least one digit give the number, any
\* other text gives NaN.  (Texts with more than four fractional digits or
\* an exponent are outside the fixed-point range and are not generated.)
to_numeric(s) ==
    LET signed == s # <<>> /\ s[1] \in {"-", "+"}
        body == IF signed THEN SubSeq(s, 2, Len(s)) ELSE s
        dots == {i \in DOMAIN body : body[i] = "."}
        dot == IF dots = {} THEN Len(body) + 1 ELSE CHOOSE i \in dots : TRUE
        ip == SubSeq(body, 1, dot - 1)
        fp == SubSeq(body, dot + 1, Len(body))
        ok == /\ Cardinality(dots) <= 1
              /\ \A i \in DOMAIN ip : ip[i] \in Digits
              /\ \A i \in DOMAIN fp : fp[i] \in Digits
              /\ Len(ip) + Len(fp) >= 1
              /\ Len(fp) <= 4
        mag == DigitsValue(ip) * Unit + DigitsValue(fp) * Pow10(4 - Len(fp))
    IN  IF ~ok THEN NaN
        ELSE IF signed /\ s[1] = "-" THEN Num(-mag) ELSE Num(mag)

\* pd.notna / pd.isna on a float.
notna(v) == "num" \in DOMAIN v
isna(v) == ~notna(v)

\* Comparisons of floats: every comparison with NaN is False.
Lt(a, b) == notna(a) /\ notna(b) /\ a.num < b.num
Gt(a, b) == notna(a) /\ notna(b) /\ a.num > b.num

\* Mutant: abs(val) >= 100
AbsAtLeast100(v) == notna(v) /\ Abs(v.num) >= 100 * Unit

\* abs(val) > 100
AbsGt100(v) == notna(v) /\ Abs(v.num) > 100 * Unit

\* val / 100.0
Div100(v) == IF notna(v) THEN Num(v.num \div 100) ELSE NaN

\* _normalize_percent_like_series, one element of the column.
normalize_percent_like_series(x) == to_numeric(RemovePercent(Str(x)))

\* Mutant: num / 100.0 for every element.
em_percent_rule_series_always(x) == Div100(normalize_percent_like_series(x))

\* _em_percent_rule_series, one element: num.where(num.abs() <= 100, num/100).
em_percent_rule_series(x) ==
    LET num == normalize_percent_like_series(x)
    IN  IF notna(num) /\ Abs(num.num) <= 100 * Unit THEN num ELSE Div100(num)

\* _normalize_percent_like_scalar.
normalize_percent_like_scalar(x) ==
    IF IsNone(x) THEN NaN
    ELSE LET s == Str(x)
             num == IF \E i \in DOMAIN s : s[i] = "%"
                    THEN to_numeric(RemovePercent(s))
                    ELSE to_numeric(s)
         IN  IF AbsGt100(num) THEN Div100(num) ELSE num

\* ------------------------------------------------------------------------
\* Bounds of the model and the inputs drawn within them
\* ------------------------------------------------------------------------

\* Largest concurrency argument tried.
MaxConcurrency == 2

\* Largest limit argument tried.
MaxLimit == 2

\* Largest number of listing pages the upstream announces.
MaxPages == 3

\* Largest number of records on one listing page.
MaxPageLen == 2

\* Longest listing handed to Stage 1 on its own.
MaxListing == 2

\* Largest number of records the upstream lists over all pages of one run.
MaxRecords == 3

Min(a, b) == IF a < b THEN a ELSE b
Max(a, b) == IF a > b THEN a ELSE b

\* Concatenation of a sequence of sequences.
RECURSIVE Concat(_)
Concat(ss) == IF ss = <<>> THEN <<>> ELSE Head(ss) \o Concat(Tail(ss))

\* Strings used as identifiers, names and field texts.
S601 == <<"6", "0", "1">>
S002 == <<"0", "0", "2">>
S603 == <<"6", "0", "3">>
SDash == <<"-">>

\* ------------------------------------------------------------------------
\* Listing stage: _em_list_payload_to_df, _load_list_all_async
\* ------------------------------------------------------------------------

\* The columns _em_list_payload_to_df builds for every item.
ListColumns == {"f12", "f14", "f15", "f3", "f10", "f8"}

\* data.get("diff") or []
DiffOf(data) == IF "diff" \in DOMAIN data THEN data.diff ELSE <<>>

\* _em_list_payload_to_df: the rows of one page; a payload without `data`
\* or without `diff` gives no rows (and no error).
em_list_payload_to_df(payload) ==
    LET data == OrEmpty(Get(OrEmpty(payload), "data"))
        diff == DiffOf(data)
    IN  [i \in 1..Len(diff) |-> [k \in ListColumns |-> Get(diff[i], k)]]

\* Mutant: first["data"]["diff"], an error when a key is missing.
first_index_raises(first) ==
    \/ IsNone(first)
    \/ "data" \notin DOMAIN first
    \/ IsNone(first.data)
    \/ "diff" \notin DOMAIN first.data

\* Whether reading the envelope of page 1 raises: first.get("data") is an
\* AttributeError when the body is JSON null; on a dict, .get and `or`
\* never raise, whatever keys it lacks.
first_get_raises(first) == IsNone(first)

\* ((first.get("data") or {}).get("total")) or len(df)
TotalOf(first, df) ==
    LET data == OrEmpty(Get(first, "data"))
    IN  IF "total" \in DOMAIN data /\ data.total # 0 THEN data.total
        ELSE Len(df)

\* Mutant: pages = total // pz
PagesOfFloor(total, pz) == total \div pz

\* pages = (total + pz - 1) // pz
PagesOf(total, pz) == (total + pz - 1) \div pz

\* Mutant: the page semaphore has one permit more than the concurrency.
ListConcurrencyPlusOne(concurrency) == Max(1, concurrency) + 1

\* The clamps of the call into _load_list_all_async.
ListConcurrency(concurrency) == Max(1, concurrency)
ListPz(pz) == Max(100, pz)

\* Mutant: the gathered pages are concatenated last page first.
ConcatPagesDescending(df1, others, pages) ==
    df1 \o Concat([k \in 1..(pages - 1) |-> others[pages + 1 - k]])

\* pd.concat([df] + others): page 1, then the gathered pages by page number.
ConcatPages(df1, others, pages) ==
    df1 \o Concat([k \in 1..(pages - 1) |-> others[k + 1]])

\* ------------------------------------------------------------------------
\* Stage 1: _normalize_list_display and the list-level filter
\* ------------------------------------------------------------------------

\* _normalize_list_display: f10, f3 and f8 of every row through the percent
\* rule (the columns exist whenever the frame has a row).
normalize_list_display(df) ==
    [i \in 1..Len(df) |->
        [k \in ListColumns |->
            IF k \in {"f10", "f3", "f8"} THEN em_percent_rule_series(df[i][k])
            ELSE df[i][k]]]

\* Mutant: the comparisons of the condition are not strict.
cond_by_params_inclusive(r, a) ==
    /\ notna(r.f3) /\ notna(r.f10) /\ notna(r.f8)
    /\ r.f3.num >= a.pct_min.num
    /\ r.f3.num <= a.pct_max.num
    /\ r.f10.num >= a.lb_min.num
    /\ r.f8.num >= a.hs_min.num

\* The row condition of get_filtered_stock_rows_by_params.
cond_by_params(r, a) ==
    /\ Gt(r.f3, a.pct_min)
    /\ Lt(r.f3, a.pct_max)
    /\ Gt(r.f10, a.lb_min)
    /\ Gt(r.f8, a.hs_min)

\* Mutant: the volume ratio is compared with 10.0.
cond_fixed_lb_10(r) ==
    /\ Gt(r.f10, Num(10 * Unit))
    /\ Gt(r.f8, Num(1 * Unit))
    /\ Gt(r.f3, Num(2 * Unit))
    /\ Lt(r.f3, Num(5 * Unit))

\* The row condition of _filter_candidates: the literals 5.0, 1.0, 2.0, 5.0.
cond_fixed(r) ==
    /\ Gt(r.f10, Num(5 * Unit))
    /\ Gt(r.f8, Num(1 * Unit))
    /\ Gt(r.f3, Num(2 * Unit))
    /\ Lt(r.f3, Num(5 * Unit))

\* df["f12"].dropna().astype(str).tolist()
codes_of(df) ==
    LET kept == SelectSeq(df, LAMBDA r : ~IsNone(r.f12))
    IN  [i \in 1..Len(kept) |-> Str(kept[i].f12)]

\* df.loc[cond] of the normalized listing, for either pipeline.
filtered_df(fn, df, a) ==
    LET nd == normalize_list_display(df)
    IN  IF fn = "by_params" THEN SelectSeq(nd, LAMBDA r : cond_by_params(r, a))
        ELSE SelectSeq(nd, LAMBDA r : cond_fixed(r))

\* Mutant: the limit is not applied to the identifiers.
truncate_not(codes, limit) == codes

\* if limit and limit > 0: codes = codes[:limit]
truncate(codes, limit) ==
    IF limit > 0 THEN SubSeq(codes, 1, Min(limit, Len(codes))) ELSE codes

\* ------------------------------------------------------------------------
\* Detail stage: the body of task(code) in both pipelines
\* ------------------------------------------------------------------------

KeepKeys == {"f57", "f58", "f43", "f170", "f50", "f168", "f191", "f137"}

\* str.strip() for blanks.
RECURSIVE Strip(_)
Strip(s) ==
    IF s # <<>> /\ s[1] = " " THEN Strip(Tail(s))
    ELSE IF s # <<>> /\ s[Len(s)] = " " THEN Strip(SubSeq(s, 1, Len(s) - 1))
    ELSE s

\* _code_to_secid / code_to_secid
code_to_secid(code) ==
    LET c == Strip(code)
    IN  IF c # <<>> /\ c[1] = "6" THEN <<"1", ".">> \o c ELSE <<"0", ".">> \o c

\* Mutant: the row carries the normalized f191.
build_row_normalized(data) ==
    [k \in KeepKeys |->
        IF k = "f191" THEN normalize_percent_like_scalar(Get(data, k)) ELSE Get(data, k)]

\* _build_row_from_single_em
build_row_from_single_em(data) == [k \in KeepKeys |-> Get(data, k)]

\* _normalize_percent_like of stock_service.py: no division.
normalize_percent_like(x) ==
    IF IsNone(x) THEN NaN ELSE to_numeric(RemovePercent(Str(x)))

\* _compute_display_row_from_em_data: the eight fields; f10 and f3, which
\* are not among them, are added normalized and then left out again.
compute_display_row_from_em_data(data) ==
    LET row0 == [k \in KeepKeys |-> Get(data, k)]
        pct(k) == LET val == normalize_percent_like(Get(row0, k))
                  IN  IF AbsGt100(val) THEN Div100(val) ELSE val
        row1 == [k \in KeepKeys \cup {"f10", "f3"} |->
                    IF k \in {"f10", "f3"} THEN pct(k) ELSE row0[k]]
    IN  [k \in KeepKeys \cap DOMAIN row1 |-> row1[k]]

\* What a task hands to gather: a returned dict, or an exception.
Returned(d) == [raised |-> FALSE, value |-> d]
Raised == [raised |-> TRUE, value |-> EmptyDict]

\* Mutant: no except clause, the exception leaves the task.
on_exception_propagate == Raised

\* except Exception: return {}
on_exception == Returned(EmptyDict)

\* Mutant: wb_val <= float(wb_min).
below_or_at_wb_min(wb_val, wb_min) ==
    isna(wb_val) \/ (notna(wb_min) /\ wb_val.num <= wb_min.num)

\* pd.isna(wb_val) or wb_val < float(wb_min)
below_wb_min(wb_val, wb_min) == isna(wb_val) \/ Lt(wb_val, wb_min)

\* task(code) of get_filtered_stock_rows_by_params, from the response on.
task_by_params(r, a) ==
    IF r.status = "error" THEN on_exception
    ELSE LET data == OrEmpty(Get(OrEmpty(r.json), "data"))
             wb_val == normalize_percent_like_scalar(Get(data, "f191"))
         IN  IF below_wb_min(wb_val, a.wb_min) THEN Returned(EmptyDict)
             ELSE Returned(build_row_from_single_em(data))

\* task(code) of get_filtered_stock_rows, from the response on.
task_fixed(r) ==
    IF r.status = "error" THEN on_exception
    ELSE LET data == OrEmpty(Get(OrEmpty(r.json), "data"))
         IN  Returned(compute_display_row_from_em_data(data))

task_result(fn, r, a) ==
    IF fn = "by_params" THEN task_by_params(r, a) ELSE task_fixed(r)

\* Mutant: the rows are returned unfiltered.
all_rows(rows) == rows

\* [r for r in rows if r]
non_empty_rows(rows) == SelectSeq(rows, LAMBDA r : Truthy(r))

\* Mutant: results are appended in completion order.
store_in_completion_order(rows, i, k, value) == [rows EXCEPT ![k] = value]

\* gather: the result of task i goes to slot i, whatever the number k of
\* tasks that finished before it.
store_result(rows, i, k, value) == [rows EXCEPT ![i] = value]

\* The slot of a task that has not returned yet.
Pending == [pending |-> TRUE]

\* Mutant: a task does not wait for a free permit.
sem_free_always(value) == TRUE

\* Mutant: the permit is not given back.
sem_release_leak(value) == value

\* async with sem: a permit is taken only when one is free.
sem_free(value) == value > 0
sem_acquire(value) == value - 1
\* leaving `async with sem`, by return or by exception.
sem_release(value) == value + 1

\* Mutant: the caller goes on as soon as one page task is done.
gather_pages_first_completed(st) ==
    IF \E pn \in DOMAIN st : st[pn] = "failed" THEN "raise"
    ELSE IF \E pn \in DOMAIN st : st[pn] = "done" THEN "return"
    ELSE "wait"

\* Mutant: gather(..., return_exceptions=True), a failed page is skipped.
gather_pages_tolerant(st) ==
    IF \A pn \in DOMAIN st : st[pn] \in {"done", "failed"} THEN "return"
    ELSE "wait"

\* gather(*tasks, return_exceptions=False) over the page tasks: the first
\* exception is raised in the caller; without one the results are returned
\* when every task is done.
gather_pages(st) ==
    IF \E pn \in DOMAIN st : st[pn] = "failed" THEN "raise"
    ELSE IF \A pn \in DOMAIN st : st[pn] = "done" THEN "return"
    ELSE "wait"

\* ------------------------------------------------------------------------
\* The upstream and the callers: what the run can be given
\* ------------------------------------------------------------------------

\* The default arguments of get_filtered_stock_rows_by_params, and a second
\* set of thresholds.
DefaultThresholds ==
    [pct_min |-> Num(2 * Unit), pct_max |-> Num(5 * Unit),
     lb_min |-> Num(5 * Unit), hs_min |-> Num(1 * Unit),
     wb_min |-> Num(20 * Unit)]
OtherThresholds ==
    [pct_min |-> Num(3 * Unit), pct_max |-> Num(6 * Unit),
     lb_min |-> Num(10 * Unit), hs_min |-> Num(2 * Unit),
     wb_min |-> Num(25 * Unit)]

\* The calls: the fixed pipeline, and the parameterized one with either set
\* of thresholds; concurrency, limit and pz as the caller passes them (the
\* HTTP layer admits concurrency 1..64, a direct call any integer).
Call_(fn, th, concurrency, limit, pz) ==
    [fn |-> fn, pct_min |-> th.pct_min, pct_max |-> th.pct_max,
     lb_min |-> th.lb_min, hs_min |-> th.hs_min, wb_min |-> th.wb_min,
     concurrency |-> concurrency, limit |-> limit, pz |-> pz]

Calls ==
    { Call_(v[1], v[2], c, l, z) :
        v \in {<<"fixed", DefaultThresholds>>, <<"by_params", DefaultThresholds>>},
        c \in {-1, 0} \cup (1..MaxConcurrency),
        l \in 0..MaxLimit,
        z \in {50} }

\* One listing item of the upstream.
Item(code, f3, f10, f8) ==
    [f12 |-> code, f14 |-> JStr(<<"n">>), f15 |-> JFloat(10 * Unit),
     f3 |-> f3, f10 |-> f10, f8 |-> f8]

\* 3.0 / 10.0 / 2.0: inside the default thresholds, on two bounds of the
\* other set.
ItemA == Item(JStr(S601), JFloat(3 * Unit), JFloat(10 * Unit), JFloat(2 * Unit))
\* 450 (pre-scaled 4.5) / "12%" / 2.5: inside both sets of thresholds.
ItemB ==
    Item(JStr(S002), JInt(450), JStr(<<"1", "2", "%">>), JFloat(25 * (Unit \div 10)))
\* 5.0 / 20.0 / 3.0: on the default upper bound, inside the other set.
ItemC == Item(JStr(S603), JFloat(5 * Unit), JFloat(20 * Unit), JFloat(3 * Unit))
\* No identifier, inside both sets of thresholds.
ItemD == Item(None, JFloat(4 * Unit), JFloat(20 * Unit), JFloat(3 * Unit))

Items == {ItemA, ItemB, ItemC}

\* The record lists page 1 can carry: up to MaxPageLen of the items with an
\* identifier, or one that starts with the item without.
FirstDiffs ==
    UNION { [1..m -> Items] : m \in 0..Min(MaxPageLen, MaxRecords) }
    \cup {<<ItemD, ItemA>>}

\* The record lists a later page can carry, with n records left.
LaterDiffs(n) == {d \in {<<>>, <<ItemB>>, <<ItemC, ItemA>>} : Len(d) <= n}

\* The totals the envelope of page 1 announces (pz is 100 after the clamp).
Totals == {100} \cup {100 * k + 50 : k \in 1..(MaxPages - 1)}

\* The response to the request for page 1: an error (network, timeout,
\* non-2xx), or a JSON body: null, or an object with or without `data`,
\* `total` and `diff` (the longer record lists come without `total`).
FirstResponses ==
    {[status |-> "error"]}
    \cup {[status |-> "ok", json |-> j] : j \in {None, EmptyDict, [data |-> None]}}
    \cup {[status |-> "ok", json |-> [data |-> [total |-> t]]] : t \in Totals}
    \cup {[status |-> "ok", json |-> [data |-> [diff |-> d]]] : d \in FirstDiffs}
    \cup {[status |-> "ok", json |-> [data |-> [total |-> t, diff |-> d]]] :
            t \in Totals, d \in {x \in FirstDiffs : Len(x) <= 1}}

\* The response to the request for a later page, with n records left.
PageResponses(n) ==
    {[status |-> "error"]}
    \cup {[status |-> "ok", json |-> [data |-> [diff |-> d]]] : d \in LaterDiffs(n)}

\* The identifier a secid addresses.
SecidCode(secid) == SubSeq(secid, 3, Len(secid))

\* The imbalance values the detail endpoint reports: 2500 (pre-scaled 25),
\* 20.0 and 150 (pre-scaled 1.5).
F191Values == {JInt(2500), JFloat(20 * Unit), JInt(150)}

\* The response to the detail request for secid: an error (network,
\* timeout, non-2xx), a body without usable `data`, or the record of the
\* addressed identifier.
DetailResponses(secid) ==
    {[status |-> "error"]}
    \cup {[status |-> "ok", json |-> [data |-> None]]}
    \cup {[status |-> "ok",
           json |-> [data |-> [f57 |-> JStr(SecidCode(secid)), f191 |-> v]]] :
            v \in F191Values}

\* The shape of page 1's response, kept for the record.
ShapeOf(r) ==
    IF r.status = "error" THEN "error"
    ELSE IF IsNone(r.json) THEN "null"
    ELSE IF ~Truthy(OrEmpty(Get(r.json, "data"))) THEN "no_data"
    ELSE IF "diff" \notin DOMAIN r.json.data THEN "no_diff"
    ELSE "ok"

\* ------------------------------------------------------------------------
\* The run of one pipeline call
\* ------------------------------------------------------------------------

VARIABLES
    pc,         \* the pipeline coroutine: idle, page1, pages, detail,
                \* returned, raised
    args,       \* the arguments of the call
    first,      \* the shape of page 1's response
    pageError,  \* a request for a listing page has failed
    pageInversion, \* a page task finished before one with a smaller number
    pages,      \* _load_list_all_async: the page count
    pageSt,     \* _load_list_all_async: the page tasks 2..pages
    others,     \* _load_list_all_async: the frames of the page tasks
    listSem,    \* _load_list_all_async: free permits of its semaphore
    df,         \* the listing: page 1, then all pages
    cands,      \* the identifiers Stage 1 selected
    codes,      \* the identifiers after truncation to limit
    taskSt,     \* the detail tasks
    resp,       \* the response each detail task received
    rows,       \* the slots gather fills
    sem,        \* free permits of the detail semaphore
    inversion,  \* a detail task finished before one with a smaller index
    detailReqs, \* the number of requests each detail task has sent
    page1,      \* what page 1 carried: its `total` and its number of records
    pageReqs,   \* the number of requests sent for each page number
    pageDone,   \* the number of requests completed for each page number
    raw,        \* a value handed to the normalizers on their own
    norm,       \* what the normalizers made of it, and of their own results
    result      \* the value returned

vars ==
    <<pc, args, first, pageError, pageInversion, pages, pageSt, others, listSem, df,
      cands, codes, taskSt, resp, rows, sem, inversion, detailReqs, page1, pageReqs,
      pageDone, raw, norm, result>>

listVars == <<pages, pageSt, others, listSem>>
detailVars == <<taskSt, resp, rows, sem, inversion, detailReqs>>
reqVars == <<page1, pageReqs, pageDone>>
normVars == <<raw, norm>>

\* Mutant: a request is sent a second time.
sent_twice(n) == n + 2

\* One client.get: one more request sent.
sent(n) == n + 1

\* The counts f with one more request sent for k, or one more completed.
Sent(f, k) ==
    [x \in DOMAIN f \cup {k} |->
        IF x # k THEN f[x] ELSE IF k \in DOMAIN f THEN sent(f[k]) ELSE sent(0)]
Completed(f, k) ==
    [x \in DOMAIN f \cup {k} |->
        IF x # k THEN f[x] ELSE IF k \in DOMAIN f THEN f[k] + 1 ELSE 1]

NoResp == [status |-> "none"]

Init ==
    /\ pc = "idle"
    /\ args = EmptyDict
    /\ first = "pending"
    /\ pageError = FALSE
    /\ pageInversion = FALSE
    /\ pages = 0
    /\ pageSt = <<>>
    /\ others = <<>>
    /\ listSem = 0
    /\ df = <<>>
    /\ cands = <<>>
    /\ codes = <<>>
    /\ taskSt = <<>>
    /\ resp = <<>>
    /\ rows = <<>>
    /\ sem = 0
    /\ inversion = FALSE
    /\ detailReqs = <<>>
    /\ page1 = None
    /\ pageReqs = <<>>
    /\ pageDone = <<>>
    /\ raw = None
    /\ norm = <<>>
    /\ result = <<>>

\* The call: the client is opened and the request for page 1 is sent.
Call ==
    /\ pc = "idle"
    /\ \E a \in Calls : args' = a
    /\ pc' = "page1"
    /\ pageReqs' = Sent(pageReqs, 1)
    /\ UNCHANGED <<first, pageError, pageInversion, listVars, df, cands, codes, detailVars, result>>
    /\ UNCHANGED <<page1, pageDone>>
    /\ UNCHANGED normVars

\* The pipeline from the return of _load_list_all_async to its next await:
\* normalize, filter, codes, truncation, and either an early return, the
\* ValueError of Semaphore(concurrency) for a negative concurrency, or the
\* detail tasks handed to gather.
AfterListing(listing) ==
    LET cs == codes_of(filtered_df(args.fn, listing, args))
        cut == truncate(cs, args.limit)
        n == Len(cut)
    IN  /\ df' = listing
        /\ cands' = cs
        /\ codes' = cut
        /\ pages' = 0
        /\ pageSt' = <<>>
        /\ others' = <<>>
        /\ listSem' = 0
        /\ inversion' = FALSE
        /\ IF cut = <<>>
           THEN /\ pc' = "returned"
                /\ result' = <<>>
                /\ UNCHANGED <<taskSt, resp, rows, sem, detailReqs>>
           ELSE IF args.concurrency < 0
           THEN /\ pc' = "raised"
                /\ UNCHANGED <<taskSt, resp, rows, sem, detailReqs, result>>
           ELSE /\ pc' = "detail"
                /\ taskSt' = [i \in 1..n |-> "waiting"]
                /\ resp' = [i \in 1..n |-> NoResp]
                /\ rows' = [i \in 1..n |-> Pending]
                /\ sem' = args.concurrency
                /\ detailReqs' = [i \in 1..n |-> 0]
                /\ UNCHANGED result

\* The response to page 1 arrives.
FirstPage ==
    /\ pc = "page1"
    /\ \E r \in FirstResponses :
        /\ first' = ShapeOf(r)
        /\ pageError' = (r.status = "error")
        /\ UNCHANGED pageInversion
        /\ pageDone' = Completed(pageDone, 1)
        /\ UNCHANGED pageReqs
        /\ IF r.status = "error" \/ first_get_raises(r.json)
           THEN /\ pc' = "raised"
                /\ UNCHANGED <<listVars, df, cands, codes, detailVars, page1, result>>
           ELSE LET df1 == em_list_payload_to_df(r.json)
                    total == TotalOf(r.json, df1)
                    n == PagesOf(total, ListPz(args.pz))
                    data == OrEmpty(Get(r.json, "data"))
                IN  /\ page1' = [total |-> IF "total" \in DOMAIN data
                                           THEN JInt(data.total) ELSE None,
                                 records |-> Len(df1)]
                    /\ IF n <= 1
                       THEN AfterListing(df1)
                       ELSE /\ pc' = "pages"
                            /\ df' = df1
                            /\ pages' = n
                            /\ pageSt' = [pn \in 2..n |-> "waiting"]
                            /\ others' = [pn \in 2..n |-> <<>>]
                            /\ listSem' = ListConcurrency(args.concurrency)
                            /\ UNCHANGED <<cands, codes, detailVars, result>>
    /\ UNCHANGED args
    /\ UNCHANGED normVars

\* The records received so far in this run.
RECURSIVE SumLen(_, _)
SumLen(f, S) ==
    IF S = {} THEN 0
    ELSE LET x == CHOOSE x \in S : TRUE IN Len(f[x]) + SumLen(f, S \ {x})

Received == Len(df) + SumLen(others, DOMAIN others)

\* A page task enters `async with sem` and sends its request.  Once the
\* caller has left `async with client`, the closed client refuses the
\* request: the task fails at once and gives its permit back.
PageAcquire(pn) ==
    /\ pageSt[pn] = "waiting"
    /\ sem_free(listSem)
    /\ IF pc = "pages"
       THEN /\ pageSt' = [pageSt EXCEPT ![pn] = "inflight"]
            /\ listSem' = sem_acquire(listSem)
            /\ pageReqs' = Sent(pageReqs, pn)
       ELSE /\ pageSt' = [pageSt EXCEPT ![pn] = "failed"]
            /\ listSem' = sem_release(sem_acquire(listSem))
            /\ UNCHANGED pageReqs
    /\ UNCHANGED <<page1, pageDone>>
    /\ UNCHANGED <<pc, args, first, pageError, pageInversion, pages, others, df, cands, codes,
                   detailVars, result>>
    /\ UNCHANGED normVars

\* The response to a page request arrives; the task returns its frame or
\* fails, leaving `async with sem` either way.
PageResponse(pn) ==
    /\ pageSt[pn] = "inflight"
    /\ \E r \in PageResponses(MaxRecords - Received) :
        /\ pageError' = (pageError \/ r.status = "error")
        /\ pageInversion' =
            (pageInversion \/ \E q \in DOMAIN pageSt :
                                q < pn /\ pageSt[q] \in {"waiting", "inflight"})
        /\ IF r.status = "error"
           THEN /\ pageSt' = [pageSt EXCEPT ![pn] = "failed"]
                /\ UNCHANGED others
           ELSE /\ pageSt' = [pageSt EXCEPT ![pn] = "done"]
                /\ others' = [others EXCEPT ![pn] = em_list_payload_to_df(r.json)]
    /\ listSem' = sem_release(listSem)
    /\ pageDone' = Completed(pageDone, pn)
    /\ UNCHANGED <<pc, args, first, pages, df, cands, codes, detailVars, page1, pageReqs,
                   result>>
    /\ UNCHANGED normVars

\* gather over the page tasks raises: the exception leaves
\* _load_list_all_async and the pipeline; the other page tasks are not
\* cancelled.
GatherPagesRaise ==
    /\ pc = "pages"
    /\ gather_pages(pageSt) = "raise"
    /\ pc' = "raised"
    /\ UNCHANGED <<args, first, pageError, pageInversion, listVars, df, cands, codes, detailVars, result>>
    /\ UNCHANGED reqVars
    /\ UNCHANGED normVars

\* gather over the page tasks returns: concat, return, and on into Stage 1.
GatherPagesReturn ==
    /\ pc = "pages"
    /\ gather_pages(pageSt) = "return"
    /\ AfterListing(ConcatPages(df, others, pages))
    /\ UNCHANGED <<args, first, pageError, pageInversion, reqVars>>
    /\ UNCHANGED normVars

\* A detail task enters `async with sem` and sends its request.
TaskAcquire(i) ==
    /\ pc = "detail"
    /\ taskSt[i] = "waiting"
    /\ sem_free(sem)
    /\ taskSt' = [taskSt EXCEPT ![i] = "inflight"]
    /\ sem' = sem_acquire(sem)
    /\ detailReqs' = [detailReqs EXCEPT ![i] = sent(detailReqs[i])]
    /\ UNCHANGED <<pc, args, first, pageError, pageInversion, listVars, df, cands, codes,
                   resp, rows, inversion, reqVars, result>>
    /\ UNCHANGED normVars

\* The response to a detail request arrives; the task returns its row or
\* {} (or would raise), leaving `async with sem`.
TaskResponse(i) ==
    /\ pc = "detail"
    /\ taskSt[i] = "inflight"
    /\ \E r \in DetailResponses(code_to_secid(codes[i])) :
        LET out == task_result(args.fn, r, args)
            k == Cardinality({j \in DOMAIN taskSt : taskSt[j] \in {"done", "failed"}})
        IN  /\ resp' = [resp EXCEPT ![i] = r]
            /\ IF out.raised
               THEN /\ taskSt' = [taskSt EXCEPT ![i] = "failed"]
                    /\ UNCHANGED rows
               ELSE /\ taskSt' = [taskSt EXCEPT ![i] = "done"]
                    /\ rows' = store_result(rows, i, k + 1, out.value)
    /\ sem' = sem_release(sem)
    /\ inversion' = (inversion \/ \E j \in 1..(i - 1) : taskSt[j] \in {"waiting", "inflight"})
    /\ UNCHANGED <<pc, args, first, pageError, pageInversion, listVars, df, cands, codes, result>>
    /\ UNCHANGED <<detailReqs, reqVars>>
    /\ UNCHANGED normVars

\* gather over the detail tasks ends: with every task done the non-empty
\* rows are returned; an exception of a task would be raised in the caller.
GatherRows ==
    /\ pc = "detail"
    /\ \/ \E i \in DOMAIN taskSt : taskSt[i] = "failed"
       \/ \A i \in DOMAIN taskSt : taskSt[i] = "done"
    /\ IF \E i \in DOMAIN taskSt : taskSt[i] = "failed"
       THEN pc' = "raised" /\ UNCHANGED result
       ELSE pc' = "returned" /\ result' = non_empty_rows(rows)
    /\ UNCHANGED <<args, first, pageError, pageInversion, listVars, df, cands, codes, detailVars>>
    /\ UNCHANGED reqVars
    /\ UNCHANGED normVars

Next ==
    \/ Call
    \/ FirstPage
    \/ \E pn \in DOMAIN pageSt : PageAcquire(pn)
    \/ \E pn \in DOMAIN pageSt : PageResponse(pn)
    \/ GatherPagesRaise
    \/ GatherPagesReturn
    \/ \E i \in DOMAIN taskSt : TaskAcquire(i)
    \/ \E i \in DOMAIN taskSt : TaskResponse(i)
    \/ GatherRows

Spec == Init /\ [][Next]_vars

\* The event loop runs every detail task that is ready, every detail
\* request that was sent completes (a response, an error, or the 10-second
\* timeout), and gather resumes the pipeline when its tasks are done.
Fairness ==
    /\ WF_vars(\E i \in DOMAIN taskSt : TaskAcquire(i))
    /\ WF_vars(\E i \in DOMAIN taskSt : TaskResponse(i))
    /\ WF_vars(GatherRows)

FairSpec == Spec /\ Fairness

\* ------------------------------------------------------------------------
\* Stage 1 on its own: the listing and the thresholds are drawn, and the
\* selection of get_filtered_stock_rows_by_params / get_filtered_codes_async
\* is applied to them.
\* ------------------------------------------------------------------------

\* Field triples (f3, f10, f8) inside, on and outside the bounds of both
\* sets of thresholds, pre-scaled, with a percent sign, and no number.
Stage1Fields ==
    { <<JFloat(3 * Unit), JStr(<<"1", "2", "%">>), JFloat(25 * (Unit \div 10))>>,
      <<JFloat(2 * Unit), JFloat(12 * Unit), JFloat(3 * Unit)>>,
      <<JFloat(5 * Unit), JFloat(12 * Unit), JFloat(3 * Unit)>>,
      <<JInt(450), JFloat(5 * Unit), JFloat(3 * Unit)>>,
      <<JInt(450), JFloat(10 * Unit), JFloat(3 * Unit)>>,
      <<JInt(450), JFloat(12 * Unit), JFloat(1 * Unit)>>,
      <<JInt(450), JInt(1200), JFloat(2 * Unit)>>,
      <<JStr(SDash), JFloat(12 * Unit), JFloat(3 * Unit)>>,
      <<JFloat(4 * Unit), None, JFloat(3 * Unit)>>,
      <<JFloat(4 * Unit), JFloat(12 * Unit), JStr(SDash)>>,
      <<JInt(-450), JFloat(12 * Unit), JFloat(3 * Unit)>> }

Stage1Items ==
    { Item(c, v[1], v[2], v[3]) :
        c \in {JStr(S601), JStr(S002), None}, v \in Stage1Fields }

Stage1Listings == UNION { [1..m -> Stage1Items] : m \in 0..MaxListing }

Stage1Calls ==
    { Call_(v[1], v[2], 1, l, 100) :
        v \in {<<"fixed", DefaultThresholds>>, <<"by_params", DefaultThresholds>>,
               <<"by_params", OtherThresholds>>},
        l \in {0, 1} }

InitStage1 ==
    /\ pc = "stage1"
    /\ args \in Stage1Calls
    /\ df \in Stage1Listings
    /\ first = "pending"
    /\ pageError = FALSE
    /\ pageInversion = FALSE
    /\ pages = 0
    /\ pageSt = <<>>
    /\ others = <<>>
    /\ listSem = 0
    /\ cands = <<>>
    /\ codes = <<>>
    /\ taskSt = <<>>
    /\ resp = <<>>
    /\ rows = <<>>
    /\ sem = 0
    /\ inversion = FALSE
    /\ detailReqs = <<>>
    /\ page1 = None
    /\ pageReqs = <<>>
    /\ pageDone = <<>>
    /\ raw = None
    /\ norm = <<>>
    /\ result = <<>>

\* Normalize, filter, take the identifiers, truncate.
ApplyStage1 ==
    /\ pc = "stage1"
    /\ pc' = "selected"
    /\ cands' = codes_of(filtered_df(args.fn, df, args))
    /\ codes' = truncate(cands', args.limit)
    /\ UNCHANGED <<args, first, pageError, pageInversion, listVars, df, detailVars, result>>
    /\ UNCHANGED reqVars
    /\ UNCHANGED normVars

SpecStage1 == InitStage1 /\ [][ApplyStage1]_vars

\* ------------------------------------------------------------------------
\* The normalizers on their own: a value is drawn, both normalizers are
\* applied to it, and then to their own results.
\* ------------------------------------------------------------------------

\* Decimal texts: a sign, an integer part, a fraction, and percent signs
\* nowhere, behind, in front, inside, or twice behind.
WithPercent(t, f, where) ==
    CASE where = "none" -> t \o f
      [] where = "behind" -> t \o f \o <<"%">>
      [] where = "front" -> <<"%">> \o t \o f
      [] where = "inside" -> t \o <<"%">> \o f
      [] where = "twice" -> t \o f \o <<"%", "%">>

DecimalTexts ==
    { sg \o WithPercent(t, f, w) :
        sg \in {<<>>, <<"-">>},
        t \in {<<"0">>, <<"3">>, <<"1", "2">>, <<"1", "0", "0">>, <<"1", "0", "1">>,
               <<"6", "2", "4">>},
        f \in {<<>>, <<".", "5">>},
        w \in {"none", "behind", "front", "inside", "twice"} }

\* What the upstream can put into a percent-like field: null, integers,
\* floats, decimal texts, and texts that are no number.
RawValues ==
    {None}
    \cup {JInt(n) : n \in {0, 12, 100, -100, 101, -101, 624, -624}}
    \cup {JFloat(u) : u \in {35 * (Unit \div 10), 100 * Unit, -100 * Unit,
                             100 * Unit + Unit \div 100, -624 * (Unit \div 100)}}
    \cup {JStr(t) : t \in DecimalTexts}
    \cup {JStr(t) : t \in {<<>>, SDash, <<"%">>, <<"a", "b", "c">>, <<"1", ".", "2", ".", "3">>}}

\* The float a normalizer returned, as the value handed to it again.
AsValue(v) == IF notna(v) THEN JFloat(v.num) ELSE JStr(<<"n", "a", "n">>)

InitNormalize ==
    /\ pc = "raw"
    /\ raw \in RawValues
    /\ norm = <<>>
    /\ args = EmptyDict
    /\ first = "pending"
    /\ pageError = FALSE
    /\ pageInversion = FALSE
    /\ pages = 0
    /\ pageSt = <<>>
    /\ others = <<>>
    /\ listSem = 0
    /\ df = <<>>
    /\ cands = <<>>
    /\ codes = <<>>
    /\ taskSt = <<>>
    /\ resp = <<>>
    /\ rows = <<>>
    /\ sem = 0
    /\ inversion = FALSE
    /\ detailReqs = <<>>
    /\ page1 = None
    /\ pageReqs = <<>>
    /\ pageDone = <<>>
    /\ result = <<>>

Unchanged == UNCHANGED <<raw, args, first, pageError, pageInversion, listVars, df, cands,
                         codes, detailVars, reqVars, result>>

\* The listing-stage and the detail-stage normalizer applied to the value.
Normalize ==
    /\ pc = "raw"
    /\ pc' = "normalized"
    /\ norm' = <<[series |-> em_percent_rule_series(raw),
                 scalar |-> normalize_percent_like_scalar(raw)]>>
    /\ Unchanged

\* Each normalizer applied to what it returned.
Renormalize ==
    /\ pc = "normalized"
    /\ pc' = "renormalized"
    /\ norm' = Append(norm,
                 [series |-> em_percent_rule_series(AsValue(norm[1].series)),
                  scalar |-> normalize_percent_like_scalar(AsValue(norm[1].scalar))])
    /\ Unchanged

NextNormalize == Normalize \/ Renormalize

SpecNormalize == InitNormalize /\ [][NextNormalize]_vars

\* ------------------------------------------------------------------------
\* Properties
\* ------------------------------------------------------------------------

Tasks == DOMAIN taskSt
InFlight == Cardinality({i \in Tasks : taskSt[i] = "inflight"})
PagesInFlight == Cardinality({pn \in DOMAIN pageSt : pageSt[pn] = "inflight"})

\* The `data` dict a detail response carries, {} when there is none.
DataOf(r) == OrEmpty(Get(OrEmpty(r.json), "data"))

\* The slots that hold a record, and the place of slot i among them.
KeptSlots == {i \in DOMAIN rows : Truthy(rows[i])}
Rank(i) == Cardinality({j \in KeptSlots : j <= i})

\* C1: during the detail stage of a call with concurrency >= 1 the number
\* of detail requests in flight never exceeds the concurrency.
C1_InFlightAtMostConcurrency ==
    (pc = "detail" /\ args.concurrency >= 1) => InFlight <= args.concurrency

\* C1 witness: every permit is taken and a further task waits.
C1_Witness ==
    /\ pc = "detail"
    /\ args.concurrency = MaxConcurrency
    /\ InFlight = args.concurrency
    /\ \E i \in Tasks : taskSt[i] = "waiting"

\* C2: the detail stage has one slot per identifier, a finished task's slot
\* holds the outcome of its own identifier's request, and the returned
\* records are the non-empty slots in slot order, whatever the order in
\* which the requests completed.
C2_ResultInCandidateOrder ==
    /\ pc \in {"detail", "returned"} /\ codes # <<>> =>
        /\ DOMAIN rows = DOMAIN codes
        /\ \A i \in Tasks :
            /\ (taskSt[i] = "done") = (rows[i] # Pending)
            /\ taskSt[i] = "done" /\ Truthy(rows[i]) /\ Truthy(DataOf(resp[i])) =>
                rows[i].f57 = JStr(codes[i])
    /\ pc = "returned" /\ codes # <<>> =>
        /\ Len(result) = Cardinality(KeptSlots)
        /\ \A i \in KeptSlots : result[Rank(i)] = rows[i]

\* C2 witness: a call returned two records of different identifiers after
\* a later request completed before an earlier one.
C2_Witness ==
    /\ pc = "returned"
    /\ inversion
    /\ Len(result) >= 2
    /\ result[1].f57 # result[2].f57

\* The candidates whose request failed, and those whose request was
\* answered with a record that passes Stage 2 (the fixed pipeline has no
\* Stage 2: every answered record passes).
FetchFailed(i) == resp[i].status = "error"
ImbalanceOf(i) == normalize_percent_like_scalar(Get(DataOf(resp[i]), "f191"))
PassesStage2(i) ==
    /\ resp[i].status = "ok"
    /\ Truthy(DataOf(resp[i]))
    /\ args.fn = "by_params" =>
        notna(ImbalanceOf(i)) /\ ImbalanceOf(i).num >= args.wb_min.num

\* C3: a detail request that fails never makes the call raise; once the
\* call has returned, no failed candidate has a record in the result (every
\* entry of the result is a record), and every candidate that was fetched
\* and passes Stage 2 has its record in the result.
C3_FailedDetailOmittedSiblingsKept ==
    /\ pc = "raised" => Tasks = {}
    /\ pc = "returned" /\ codes # <<>> =>
        /\ \A k \in DOMAIN result : Truthy(result[k])
        /\ \A i \in Tasks : FetchFailed(i) => i \notin KeptSlots
        /\ \A i \in Tasks : PassesStage2(i) =>
            /\ i \in KeptSlots
            /\ Rank(i) \in DOMAIN result
            /\ result[Rank(i)].f57 = JStr(codes[i])
            /\ result[Rank(i)].f191 = resp[i].json.data.f191

\* C3 witness: a call returned the record of a candidate after the request
\* of another candidate had failed.
C3_Witness ==
    /\ pc = "returned"
    /\ \E i, j \in Tasks : FetchFailed(i) /\ PassesStage2(j)
    /\ result # <<>>

\* C4: what get_filtered_stock_rows_by_params returns is exactly, in
\* candidate order, the records of the truncated Stage 1 candidates whose
\* request was answered and whose normalized imbalance is a number >= wb_min.
C4_ResultIsStage2Subsequence ==
    (pc = "returned" /\ args.fn = "by_params") =>
        LET K == {i \in DOMAIN codes : taskSt # <<>> /\ PassesStage2(i)}
            rank(i) == Cardinality({j \in K : j <= i})
        IN  /\ Len(result) = Cardinality(K)
            /\ \A i \in K :
                /\ result[rank(i)].f57 = JStr(codes[i])
                /\ result[rank(i)].f191 = resp[i].json.data.f191

\* C4 witness: a by_params call returned a record whose imbalance is
\* exactly wb_min, and dropped a candidate whose normalized imbalance is a
\* number below wb_min.
C4_Witness ==
    /\ pc = "returned"
    /\ args.fn = "by_params"
    /\ \E i, j \in Tasks :
        /\ PassesStage2(i) /\ ImbalanceOf(i) = args.wb_min
        /\ resp[j].status = "ok"
        /\ notna(ImbalanceOf(j)) /\ ImbalanceOf(j).num < args.wb_min.num
    /\ Len(result) = 1

\* The normalized fields of listing record i, and the thresholds Stage 1
\* compares them with (the fixed pipeline: 2, 5, 5, 1).
Pct(i) == em_percent_rule_series(df[i].f3)
VolRatio(i) == em_percent_rule_series(df[i].f10)
Turnover(i) == em_percent_rule_series(df[i].f8)
Bounds == IF args.fn = "by_params" THEN args ELSE DefaultThresholds

\* Listing record i holds all three bounds strictly on numbers.
WithinBounds(i) ==
    LET p == Pct(i)
        v == VolRatio(i)
        t == Turnover(i)
    IN  /\ notna(p) /\ notna(v) /\ notna(t)
        /\ Bounds.pct_min.num < p.num
        /\ p.num < Bounds.pct_max.num
        /\ v.num > Bounds.lb_min.num
        /\ t.num > Bounds.hs_min.num

\* The identifiers of the records of S, in listing order.
IdsInOrder(S) ==
    LET place(i) == Cardinality({j \in S : j <= i})
    IN  [k \in 1..Cardinality(S) |->
            Str(df[CHOOSE i \in S : place(i) = k].f12)]

\* C5 as stated: Stage 1 selects exactly the records that hold the three
\* bounds strictly on their normalized fields, in listing order, duplicates
\* kept.
C5_SelectedIffWithinBounds ==
    pc = "selected" =>
        cands = IdsInOrder({i \in DOMAIN df : WithinBounds(i)})

\* C5 as amended: Stage 1 selects exactly the records that have an
\* identifier and hold the three bounds strictly on their normalized
\* fields, in listing order, duplicates kept; a record whose identifier is
\* null is never selected.
C5_SelectedIffIdentifiedWithinBounds ==
    pc = "selected" =>
        cands = IdsInOrder({i \in DOMAIN df : ~IsNone(df[i].f12) /\ WithinBounds(i)})

\* C5 witness: of two identified records, the one inside the bounds is
\* selected and the one exactly on the upper bound of the change is not.
C5_Witness ==
    /\ pc = "selected"
    /\ Len(cands) = 1
    /\ \E i, j \in DOMAIN df :
        /\ ~IsNone(df[i].f12) /\ WithinBounds(i)
        /\ ~IsNone(df[j].f12)
        /\ notna(Pct(j)) /\ Pct(j).num = Bounds.pct_max.num

\* C6 as stated: with concurrency >= 1, the call raises only if page 1
\* failed (its request failed or its body is JSON null).
C6_RaisesOnlyIfFirstPageFails ==
    (pc = "raised" /\ args.concurrency >= 1) => first \in {"error", "null"}

\* C6 as amended: with concurrency >= 1, the call raises only if the
\* request for some listing page failed (page 1 or a later page) or the body
\* of page 1 is JSON null; failures of detail requests never make it raise.
C6_RaisesOnlyIfAListingPageFails ==
    (pc = "raised" /\ args.concurrency >= 1) => pageError \/ first = "null"

\* C6 witness: every listing page of a multi-page listing was retrieved, a
\* detail request failed, and the call returned.
C6_Witness ==
    /\ pc = "returned"
    /\ first = "ok"
    /\ ~pageError
    /\ Len(df) = MaxRecords
    /\ \E i \in Tasks : FetchFailed(i)

\* C7: once the request for a listing page has failed, the call does not
\* return and does not go on to Stage 1: it is still gathering pages or has
\* raised, no candidate was selected and no detail task exists.
C7_ListingFailureFailsTheCall ==
    pageError =>
        /\ pc \in {"pages", "raised"}
        /\ cands = <<>>
        /\ codes = <<>>
        /\ Tasks = {}
        /\ result = <<>>

\* C7 witness: page 1 delivered records, a later page failed, the call has
\* raised.
C7_Witness ==
    /\ pc = "raised"
    /\ pageError
    /\ first = "ok"
    /\ df # <<>>

\* C8 as stated: after a 2xx first page whose body is an object without
\* `data` or without `diff` the call does not return a result.
C8_MalformedFirstPageFails ==
    first \in {"no_data", "no_diff"} => pc # "returned"

\* C8 as amended: a 2xx first page without `data`, or without `diff`, is
\* read as a page without records and raises nothing: without `data` the
\* call returns the empty result at once; without `diff` page 1 contributes
\* no record, and the call raises only if a later page request fails (or
\* concurrency is negative).
C8_MalformedFirstPageIsEmptyPage ==
    /\ first = "no_data" => pc = "returned" /\ result = <<>>
    /\ first = "no_diff" =>
        /\ pc \in {"pages", "detail", "returned", "raised"}
        /\ pc = "pages" => df = <<>>
        /\ pc = "raised" => pageError \/ args.concurrency < 0

\* C8 witness: the call returned after a first page without `data`.
C8_Witness == first = "no_data" /\ pc = "returned"

\* C9: in both pipelines a finished detail task whose 2xx response has no
\* usable `data` leaves its slot empty, so no record of it is returned.
C9_MalformedDetailIsAbsent ==
    \A i \in Tasks :
        (taskSt[i] = "done" /\ resp[i].status = "ok" /\ ~Truthy(DataOf(resp[i])))
            => ~Truthy(rows[i])

\* Capacity of the two semaphores.
ListCapacity == ListConcurrency(args.concurrency)
DetailCapacity == args.concurrency

\* C10: the permits held of either semaphore are as many as the requests
\* in flight, between 0 and the capacity; and once every task has finished
\* (by a row, by {} or by an exception) every permit is free again.
C10_PermitsMatchInFlight ==
    /\ pageSt # <<>> =>
        /\ ListCapacity - listSem = PagesInFlight
        /\ listSem \in 0..ListCapacity
        /\ (\A pn \in DOMAIN pageSt : pageSt[pn] \in {"done", "failed"})
            => listSem = ListCapacity
    /\ Tasks # {} =>
        /\ DetailCapacity - sem = InFlight
        /\ sem \in 0..DetailCapacity
        /\ (\A i \in Tasks : taskSt[i] = "done") => sem = DetailCapacity

\* C10 witness: every detail task has finished, one of them by a failed
\* request, and all permits of a semaphore of MaxConcurrency are free.
C10_Witness ==
    /\ pc = "detail"
    /\ Cardinality(Tasks) > MaxConcurrency
    /\ \A i \in Tasks : taskSt[i] = "done"
    /\ \E i \in Tasks : FetchFailed(i)
    /\ args.concurrency = MaxConcurrency
    /\ sem = MaxConcurrency

\* C11: with concurrency >= 1, a call that has reached the detail stage
\* eventually returns, and when it has returned every candidate has been
\* attempted: each detail task sent its request and got its outcome.
C11_DetailStageCompletes ==
    (pc = "detail" /\ args.concurrency >= 1)
        ~> (/\ pc = "returned"
            /\ \A i \in DOMAIN codes : taskSt[i] = "done" /\ resp[i] # NoResp)

\* C11 witness: a call with concurrency 1 and more candidates than permits
\* has returned with every candidate attempted.
C11_Witness ==
    /\ pc = "returned"
    /\ args.concurrency = 1
    /\ Len(codes) > 1
    /\ \A i \in DOMAIN codes : taskSt[i] = "done" /\ resp[i] # NoResp

\* The Stage 1 candidates of the assembled listing, in listing order.
Stage1Candidates ==
    IdsInOrder({i \in DOMAIN df : ~IsNone(df[i].f12) /\ WithinBounds(i)})

\* The detail tasks whose request has been issued.
Issued == {i \in Tasks : taskSt[i] # "waiting"}

\* C12: the detail stage has one task per identifier of the truncated
\* candidate list and none else: with limit L > 0 these are the first L
\* Stage 1 candidates in listing order (all of them when there are fewer),
\* at most L requests are issued and at most L records returned; with limit
\* 0 they are all Stage 1 candidates. The candidate list is compared with
\* the listing where the detail stage starts, before the first detail
\* request: no step of the stage changes the listing or the candidates.
C12_TruncationBeforeDetail ==
    (pc \in {"detail", "returned"} /\ codes # <<>>) =>
        /\ Tasks = DOMAIN codes
        /\ args.limit = 0 => codes = cands
        /\ args.limit > 0 =>
            /\ Len(codes) = Min(args.limit, Len(cands))
            /\ \A i \in DOMAIN codes : codes[i] = cands[i]
            /\ Cardinality(Issued) <= args.limit
            /\ Len(result) <= args.limit
        /\ (pc = "detail" /\ Issued = {}) => cands = Stage1Candidates

\* C12 witness: with more candidates than the limit, the call returned as
\* many records as the limit after a request for each of the first
\* candidates and for no other.
C12_Witness ==
    /\ pc = "returned"
    /\ args.limit = MaxLimit
    /\ Len(cands) > args.limit
    /\ Cardinality(Issued) = args.limit
    /\ Len(result) = args.limit

\* The number of records on the pages before page pn (page 1 is df).
RECURSIVE Before(_)
Before(pn) == IF pn <= 2 THEN Len(df) ELSE Before(pn - 1) + Len(others[pn - 1])

\* C13: when gather over the page tasks returns, the listing becomes page
\* 1's records followed by the records of pages 2..pages by ascending page
\* number: record k of page pn stands at place k after all records of the
\* pages before pn, and there is no other record, whatever the order in
\* which the page requests completed.
C13_ListingInPageOrder ==
    [][(pc = "pages" /\ pc' \notin {"pages", "raised"}) =>
        /\ Len(df') = Before(pages + 1)
        /\ \A k \in DOMAIN df : df'[k] = df[k]
        /\ \A pn \in DOMAIN others : \A k \in DOMAIN others[pn] :
                df'[Before(pn) + k] = others[pn][k]]_vars

\* C13 witness: the listing of a run was assembled from several pages with
\* different records after a page had completed before a page with a smaller
\* number.
C13_Witness ==
    /\ pc \in {"detail", "returned"}
    /\ pageInversion
    /\ Len(df) = MaxRecords
    /\ df[1] # df[Len(df)]

\* The page size of the run, the total page 1 stands for (the `total` of
\* its envelope, or its number of records when there is none), and the
\* least number of pages of that size that hold the total.
PageSize == Max(100, args.pz)
AnnouncedTotal == IF IsNone(page1.total) THEN page1.records ELSE page1.total.v
Ceil(t, z) ==
    CHOOSE n \in 0..(t \div z + 1) : n * z >= t /\ (n = 0 \/ (n - 1) * z < t)
PageCount == Ceil(AnnouncedTotal, PageSize)

\* C14: once page 1 has been read, only page numbers 1..pages are ever
\* requested, where pages = ceil(total / page size); with pages <= 1 no page
\* but page 1 is requested and the listing is page 1's records; with
\* pages > 1 the page tasks are those of 2..pages, and the listing is
\* assembled only after every page number 1..pages was requested.
C14_PagesIsCeilOfTotal ==
    page1 # None =>
        /\ DOMAIN pageReqs \subseteq 1..Max(PageCount, 1)
        /\ PageCount <= 1 =>
            /\ pc \in {"detail", "returned", "raised"}
            /\ DOMAIN pageReqs = {1}
            /\ Len(df) = page1.records
        /\ PageCount > 1 =>
            /\ pc \in {"pages", "detail", "returned", "raised"}
            /\ pc = "pages" => pages = PageCount /\ DOMAIN pageSt = 2..PageCount
            /\ pc \in {"detail", "returned"} => DOMAIN pageReqs = 1..PageCount

\* C14 witness: page 1 announced a total that fills MaxPages - 1 pages and
\* half of another, and the listing was assembled after requests for the
\* pages 1..MaxPages.
C14_Witness ==
    /\ pc \in {"detail", "returned"}
    /\ page1 # None
    /\ ~IsNone(page1.total)
    /\ 2 * page1.total.v = (2 * MaxPages - 1) * PageSize
    /\ DOMAIN pageReqs = 1..MaxPages

\* The number of detail requests sent for identifier c in this run.
RECURSIVE RequestsOf(_, _)
RequestsOf(c, n) ==
    IF n = 0 THEN 0
    ELSE RequestsOf(c, n - 1) + (IF codes[n] = c THEN detailReqs[n] ELSE 0)

\* C15: no page number is requested more than once and no detail task sends
\* more than one request; a task that has left the semaphore queue has sent
\* exactly one, whether it was answered or failed; and when the call has
\* returned, an identifier that occurs k times among the candidates
\* received k requests.
C15_EachRequestSentOnce ==
    /\ \A pn \in DOMAIN pageReqs : pageReqs[pn] = 1
    /\ \A pn \in DOMAIN pageDone : pageDone[pn] = 1 /\ pn \in DOMAIN pageReqs
    /\ \A i \in Tasks :
        detailReqs[i] = (IF taskSt[i] = "waiting" THEN 0 ELSE 1)
    /\ (pc = "returned" /\ codes # <<>>) =>
        \A i \in DOMAIN codes :
            RequestsOf(codes[i], Len(codes))
                = Cardinality({j \in DOMAIN codes : codes[j] = codes[i]})

\* C15 witness: a call over several pages returned after one request for
\* each of two occurrences of an identifier, one of which failed.
C15_Witness ==
    /\ pc = "returned"
    /\ Cardinality(DOMAIN pageReqs) > 1
    /\ \E i, j \in Tasks :
        /\ i # j /\ codes[i] = codes[j]
        /\ FetchFailed(i) /\ ~FetchFailed(j)
        /\ RequestsOf(codes[i], Len(codes)) >= 2

\* The rule of the normalizer on value x, given the text of x without its
\* percent signs: null gives not-a-number; the text is parsed as a decimal
\* number; a number of magnitude above 100 is divided by 100; text that is
\* no number gives not-a-number.
Rule(x, text) ==
    IF IsNone(x) THEN NaN
    ELSE LET v == to_numeric(text)
         IN  IF isna(v) THEN NaN
             ELSE IF v.num > 100 * Unit \/ v.num < -100 * Unit
             THEN Num(v.num \div 100)
             ELSE v

\* One percent sign taken from the end of the text, if it ends with one.
StripTrailing(s) ==
    IF s # <<>> /\ s[Len(s)] = "%" THEN SubSeq(s, 1, Len(s) - 1) ELSE s

\* Every percent sign taken out of the text.
RECURSIVE StripEvery(_)
StripEvery(s) ==
    IF s = <<>> THEN <<>>
    ELSE IF Head(s) = "%" THEN StripEvery(Tail(s))
    ELSE <<Head(s)>> \o StripEvery(Tail(s))

\* C16 as stated: both normalizers return, for every value, what the rule
\* gives when a trailing percent sign is stripped.
C16_NormalizeStripsTrailingPercent ==
    pc \in {"normalized", "renormalized"} =>
        /\ norm[1].series = Rule(raw, StripTrailing(Str(raw)))
        /\ norm[1].scalar = Rule(raw, StripTrailing(Str(raw)))

\* C16 as amended: both normalizers return, for every value, what the rule
\* gives when every percent sign is removed from the text, wherever it
\* stands; "-624" gives -6.24, "3.5%" gives 3.5, "12" gives 12, a magnitude
\* of exactly 100 is left unchanged, null gives not-a-number.
C16_NormalizeRemovesEveryPercent ==
    pc \in {"normalized", "renormalized"} =>
        /\ norm[1].series = Rule(raw, StripEvery(Str(raw)))
        /\ norm[1].scalar = Rule(raw, StripEvery(Str(raw)))
        /\ raw = JStr(<<"-", "6", "2", "4">>) => norm[1].scalar = Num(-624 * (Unit \div 100))
        /\ raw = JStr(<<"3", ".", "5", "%">>) => norm[1].scalar = Num(35 * (Unit \div 10))
        /\ raw = JStr(<<"1", "2">>) => norm[1].scalar = Num(12 * Unit)
        /\ raw \in {JInt(100), JFloat(100 * Unit)} => norm[1].scalar = Num(100 * Unit)
        /\ raw \in {JInt(-100), JFloat(-100 * Unit)} => norm[1].series = Num(-100 * Unit)
        /\ raw = None => isna(norm[1].series) /\ isna(norm[1].scalar)

\* C16 witness: the text "-624%" has been normalized to -6.24 by both
\* normalizers.
C16_Witness ==
    /\ pc = "normalized"
    /\ raw = JStr(<<"-", "6", "2", "4", "%">>)
    /\ norm[1].series = Num(-624 * (Unit \div 100))
    /\ norm[1].scalar = Num(-624 * (Unit \div 100))

\* The number a numeric value stands for.
ValueOf(x) == IF x.t = "int" THEN x.v * Unit ELSE x.v

\* C17: both normalizers return every number of magnitude at most 100
\* unchanged, and return their own results unchanged when applied to them.
C17_NormalizeIdempotent ==
    /\ (pc \in {"normalized", "renormalized"} /\ raw.t \in {"int", "float"}
            /\ ValueOf(raw) <= 100 * Unit /\ ValueOf(raw) >= -100 * Unit) =>
        /\ norm[1].series = Num(ValueOf(raw))
        /\ norm[1].scalar = Num(ValueOf(raw))
    /\ pc = "renormalized" => norm[2] = norm[1]

\* C17 witness: -624 was normalized to -6.24, and -6.24 to itself.
C17_Witness ==
    /\ pc = "renormalized"
    /\ raw = JInt(-624)
    /\ norm[1].series = Num(-624 * (Unit \div 100))
    /\ norm[2].series = Num(-624 * (Unit \div 100))
    /\ norm[2].scalar = Num(-624 * (Unit \div 100))

\* C18: while the pages 2..pages are fetched, the page requests in flight
\* are never more than the concurrency of the call (concurrency >= 1), for
\* every page count and interleaving; a call with concurrency <= 0 has at
\* most one page request in flight.
C18_PagesInFlightAtMostConcurrency ==
    pageSt # <<>> =>
        /\ args.concurrency >= 1 => PagesInFlight <= args.concurrency
        /\ args.concurrency <= 0 => PagesInFlight <= 1

\* C18 witness: as many page requests as the concurrency are in flight and
\* a further page task waits for a permit.
C18_Witness ==
    /\ pc = "pages"
    /\ args.concurrency >= 1
    /\ PagesInFlight = args.concurrency
    /\ \E pn \in DOMAIN pageSt : pageSt[pn] = "waiting"

\* C19: a request for a page 2..pages is sent only after the response to
\* page 1's request has arrived, and a detail request is sent only when
\* every listing page request sent in the run has completed.
C19_StagesInOrder ==
    /\ (\E pn \in DOMAIN pageReqs : pn >= 2) => 1 \in DOMAIN pageDone
    /\ (\E i \in Tasks : detailReqs[i] > 0) =>
        \A pn \in DOMAIN pageReqs :
            pn \in DOMAIN pageDone /\ pageDone[pn] = pageReqs[pn]

\* C19 witness: a detail request is in flight after the requests for
\* MaxPages pages have all completed.
C19_Witness ==
    /\ pc = "detail"
    /\ \E i \in Tasks : taskSt[i] = "inflight" /\ detailReqs[i] = 1
    /\ DOMAIN pageReqs = 1..MaxPages
    /\ DOMAIN pageDone = 1..MaxPages

Counterpart == IF args.fn = "fixed" THEN "by_params" ELSE "fixed"
CounterpartCodes ==
    truncate(codes_of(filtered_df(Counterpart, df, [args EXCEPT !.fn = Counterpart])),
             args.limit)

\* The call passes the default Stage 1 thresholds (2, 5, 5, 1).
HasDefaultThresholds ==
    \A k \in {"pct_min", "pct_max", "lb_min", "hs_min"} : args[k] = DefaultThresholds[k]

\* C21: get_filtered_stock_rows and get_filtered_stock_rows_by_params with
\* its default Stage 1 thresholds hand the same identifiers in the same
\* order to their detail stage, for the same listing, limit and page size,
\* and address them with the same secids.
C21_PipelinesAgreeUpToStage1 ==
    (pc = "selected" /\ HasDefaultThresholds) =>
        /\ codes = CounterpartCodes
        /\ \A i \in DOMAIN codes :
            code_to_secid(codes[i]) = code_to_secid(CounterpartCodes[i])

\* C21 witness: the fixed pipeline handed one identifier to its detail
\* stage from a listing with a second, different candidate behind the
\* limit.
C21_Witness ==
    /\ pc = "selected"
    /\ args.fn = "fixed"
    /\ args.limit = 1
    /\ Len(cands) = 2
    /\ Len(codes) = 1
    /\ cands[1] # cands[2]

\* C22 as stated: a call with concurrency <= 0 runs both stages as a call
\* with concurrency 1: either semaphore has one permit, free or held by the
\* one request in flight, so a waiting task is always admitted in the end,
\* and the call raises for no other reason than a failed listing request
\* or a null first page.
C22_ClampCoversBothStages ==
    (pc # "idle" /\ args.concurrency <= 0) =>
        /\ pageSt # <<>> => listSem + PagesInFlight = 1
        /\ pc = "detail" => sem + InFlight = 1
        /\ pc = "raised" => (pageError \/ first \in {"error", "null"})

\* C23 as stated: once the call has returned or raised, no page task and no
\* detail task of the run is waiting for a permit or has a request in
\* flight, and every permit of either semaphore is free.
C23_QuiescentAtFinish ==
    pc \in {"returned", "raised"} =>
        /\ \A pn \in DOMAIN pageSt : pageSt[pn] \in {"done", "failed"}
        /\ \A i \in Tasks : taskSt[i] \in {"done", "failed"}
        /\ pageSt # <<>> => listSem = ListCapacity
        /\ Tasks # {} => sem = DetailCapacity

====
